---- MODULE Spec2Model ----
(***************************************************************************)
(* Model of testsubdivsion.py: the script that runs makegeom.js, converts  *)
(* its triangles to scaled closed polygons and dispatches them, with       *)
(* labels and a legend, to a DXF drawable (d) and an OpenGL drawable (dGl).*)
(*                                                                         *)
(* Coordinates are rational numbers held as fixed-point integers, Unit     *)
(* steps per 1.0, so that the offsets 0.3 and 0.6 and the centroid's       *)
(* division by three are exact.  A point is <<x, y, z>>.                   *)
(***************************************************************************)
EXTENDS Integers, Sequences, FiniteSets, TLC

VARIABLES pc, err, proc, data, geom, geomlist, geo, i, d, dGl

vars == <<pc, err, proc, data, geom, geomlist, geo, i, d, dGl>>

(* ---------------- bounds of the explored inputs ---------------- *)
MaxExtra == 2      \* the generator yields 0 .. Ring3Hi + MaxExtra triangles
MaxCoord == 1      \* origin of the triangle family, 0 .. MaxCoord per axis

Unit == 3 * 10

(* ---------------- constants of the script ---------------- *)
ScaleFactor == 10
Ring1Lo == 0
Ring1Hi == 6
Ring2Lo_gap == Ring1Hi + 1

Ring2Lo == 6
Ring2Hi == 30
Ring3Lo == 30
Ring3Hi == 126
LabelWhiteBelow == 6
LabelYellowBelow == 30

\* a Python value that is either None or a list
None == [none |-> TRUE, list |-> <<>>]
List(l) == [none |-> FALSE, list |-> l]

(* ---------------- yapcad.geom helpers used by the script ---------------- *)
point(x, y, z) == <<x, y, z>>

add(a, b) == <<a[1] + b[1], a[2] + b[2], a[3] + b[3]>>

\* scale3(p, 1.0/3)
scale3_third(p) == <<p[1] \div 3, p[2] \div 3, p[3] \div 3>>

scale_unscaled(g, k) == g

scale(g, k) ==
    [n \in 1..Len(g) |->
        [m \in 1..Len(g[n]) |->
            <<g[n][m][1] * k, g[n][m][2] * k, g[n][m][3] * k>>]]

translate_none(g, delta) == g

translate(g, delta) ==
    [n \in 1..Len(g) |-> [m \in 1..Len(g[n]) |-> add(g[n][m], delta)]]

up1 == point(0, 0, (3 * Unit) \div 10)
up2 == point(0, 0, (6 * Unit) \div 10)

Digit(n) == CASE n = 0 -> "0" [] n = 1 -> "1" [] n = 2 -> "2" [] n = 3 -> "3"
              [] n = 4 -> "4" [] n = 5 -> "5" [] n = 6 -> "6" [] n = 7 -> "7"
              [] n = 8 -> "8" [] n = 9 -> "9"

RECURSIVE str(_)
str(n) == IF n < 10 THEN Digit(n) ELSE str(n \div 10) \o Digit(n % 10)

(* ---------------- the external generator's output ---------------- *)
\* triangle number n (from 0) of the family with origin (x0, y0); the family
\* with origin (0,0) starts with the triangle ((0,0),(1,0),(0,1))
Tri(x0, y0, n) ==
    << [x |-> (x0 + n) * Unit,     y |-> y0 * Unit],
       [x |-> (x0 + n + 1) * Unit, y |-> y0 * Unit],
       [x |-> (x0 + n) * Unit,     y |-> (y0 + 1) * Unit] >>

TriList(x0, y0, len) == [n \in 1..len |-> Tri(x0, y0, n - 1)]

\* what the generator writes to standard output: text that is not JSON, or
\* the JSON of a triangle list
Malformed == [json |-> FALSE, value |-> <<>>]

Outputs ==
    {Malformed} \cup
    { [json |-> TRUE, value |-> TriList(x0, y0, len)] :
         x0 \in 0..MaxCoord, y0 \in 0..MaxCoord,
         len \in 0..(Ring3Hi + MaxExtra) }

Processes == [returncode : {0, 1}, stdout : Outputs]

(* ---------------- drawable targets ---------------- *)
NewDrawable ==
    [linecolor |-> "default", layer |-> "default", pointstyle |-> "default",
     filename |-> "default", magnify |-> 0, cameradist |-> 0, calls |-> <<>>]

draw(t, g) ==
    [t EXCEPT !.calls = Append(@,
        [op |-> "draw", arg |-> g, s |-> "", p |-> <<>>,
         linecolor |-> t.linecolor, layer |-> t.layer])]

draw_text(t, txt, at) ==
    [t EXCEPT !.calls = Append(@,
        [op |-> "draw_text", arg |-> <<>>, s |-> txt, p |-> at,
         linecolor |-> t.linecolor, layer |-> t.layer])]

display(t) ==
    [t EXCEPT !.calls = Append(@,
        [op |-> "display", arg |-> <<>>, s |-> "", p |-> <<>>,
         linecolor |-> t.linecolor, layer |-> t.layer])]

legend(t) ==
    draw_text(draw_text(draw_text(t, "X5 subdivision", point(5 * Unit, 15 * Unit, 0)),
                        "test.py", point(5 * Unit, 12 * Unit, 0)),
              "hex subdivision test", point(5 * Unit, 10 * Unit, 0))

(* ---------------- pieces of the script ---------------- *)
\* check=True of subprocess.run
check_unchecked(returncode) == FALSE

check_raises(returncode) == returncode # 0

\* json.loads wrapped in the try/except of run_node_script
loads(stdout) == IF stdout.json THEN List(stdout.value) ELSE None

\* poly = [p1, p2, p3, p1]
poly(tri) ==
    << point(tri[1].x, tri[1].y, 0), point(tri[2].x, tri[2].y, 0),
       point(tri[3].x, tri[3].y, 0), point(tri[1].x, tri[1].y, 0) >>

geom_prepend(g, tri) == <<poly(tri)>> \o g

\* geom.append(poly)
geom_append(g, tri) == Append(g, poly(tri))

getitem_slice(list, n) ==
    [raises |-> FALSE,
     items  |-> IF n < Len(list) THEN <<list[n + 1]>> ELSE <<>>]

\* list[n] for n >= 0: the item, or IndexError
getitem(list, n) ==
    [raises |-> n >= Len(list),
     items  |-> IF n < Len(list) THEN <<list[n + 1]>> ELSE <<>>]

RingLo(k) == CASE k = 1 -> Ring1Lo [] k = 2 -> Ring2Lo [] k = 3 -> Ring3Lo
RingHi(k) == CASE k = 1 -> Ring1Hi [] k = 2 -> Ring2Hi [] k = 3 -> Ring3Hi
RingColor(k) == CASE k = 1 -> "white" [] k = 2 -> "yellow" [] k = 3 -> "red"

\* the argument of dGl.draw for ring k
GLArg(k, g) == CASE k = 1 -> g
                 [] k = 2 -> translate(g, up1)
                 [] k = 3 -> translate(g, up2)

label_count_fixed(gl) == Ring3Hi

\* range(len(geomlist))
label_count(gl) == Len(gl)

label_color(n) == IF n < LabelWhiteBelow THEN "white"
                  ELSE IF n < LabelYellowBelow THEN "yellow" ELSE "red"

label_point(gl, n) ==
    LET t == gl[n + 1]
        c == scale3_third(add(add(t[1], t[2]), t[3]))
    IN  IF n < LabelWhiteBelow THEN c
        ELSE IF n < LabelYellowBelow THEN add(c, up1) ELSE add(c, up2)

(* ---------------- initial state ---------------- *)
Init ==
    /\ pc = "setupDXF"
    /\ err = "none"
    /\ proc \in Processes
    /\ data = List(<<>>)
    /\ geom = <<>>
    /\ geomlist = <<>>
    /\ geo = <<>>
    /\ i = 0
    /\ d = NewDrawable
    /\ dGl = NewDrawable

(* ---------------- actions ---------------- *)
setupDXF_legend ==
    /\ pc = "setupDXF"
    /\ d' = legend([d EXCEPT !.filename = "subdivision-out"])
    /\ pc' = "setupGL"
    /\ UNCHANGED <<err, proc, data, geom, geomlist, geo, i, dGl>>

setupDXF ==
    /\ pc = "setupDXF"
    /\ d' = [d EXCEPT !.filename = "subdivision-out"]
    /\ pc' = "setupGL"
    /\ UNCHANGED <<err, proc, data, geom, geomlist, geo, i, dGl>>

setupGL ==
    /\ pc = "setupGL"
    /\ dGl' = [dGl EXCEPT !.magnify = 1, !.linecolor = "white", !.cameradist = 25]
    /\ pc' = "run"
    /\ UNCHANGED <<err, proc, data, geom, geomlist, geo, i, d>>

\* subprocess.run(..., check=True)
run_node_script_run ==
    /\ pc = "run"
    /\ IF check_raises(proc.returncode)
          THEN pc' = "aborted" /\ err' = "CalledProcessError"
          ELSE pc' = "parse" /\ err' = err
    /\ UNCHANGED <<proc, data, geom, geomlist, geo, i, d, dGl>>

run_node_script_parse ==
    /\ pc = "parse"
    /\ data' = loads(proc.stdout)
    /\ pc' = "len"
    /\ UNCHANGED <<err, proc, geom, geomlist, geo, i, d, dGl>>

\* print(f"length of data: {len(data)}")
geometry_len ==
    /\ pc = "len"
    /\ IF data.none
          THEN pc' = "aborted" /\ err' = "TypeError"
          ELSE pc' = "convert" /\ err' = err
    /\ i' = 0
    /\ UNCHANGED <<proc, data, geom, geomlist, geo, d, dGl>>

\* one iteration of: for tri in data
geometry_tri ==
    /\ pc = "convert"
    /\ i < Len(data.list)
    /\ geom' = geom_append(geom, data.list[i + 1])
    /\ i' = i + 1
    /\ UNCHANGED <<pc, err, proc, data, geomlist, geo, d, dGl>>

\* geom = scale(geom,10.0); return geom; then lines 109-115 of the script
geometry_return ==
    /\ pc = "convert"
    /\ i = Len(data.list)
    /\ geomlist' = scale(geom, ScaleFactor)
    /\ d' = [d EXCEPT !.layer = "0", !.pointstyle = "xo"]
    /\ geo' = <<>>
    /\ i' = RingLo(1)
    /\ pc' = "ring1"
    /\ UNCHANGED <<err, proc, data, geom, dGl>>

RingPc(k) == CASE k = 1 -> "ring1" [] k = 2 -> "ring2" [] k = 3 -> "ring3"
DrawGLPc(k) == CASE k = 1 -> "drawGL1" [] k = 2 -> "drawGL2" [] k = 3 -> "drawGL3"

\* one iteration of: for i in range(lo,hi): geo.append(geomlist[i])
ring_append(k) ==
    /\ pc = RingPc(k)
    /\ i < RingHi(k)
    /\ LET r == getitem(geomlist, i)
       IN  IF r.raises
              THEN /\ pc' = "aborted"
                   /\ err' = "IndexError"
                   /\ UNCHANGED <<geo, i>>
              ELSE /\ geo' = geo \o r.items
                   /\ i' = i + 1
                   /\ UNCHANGED <<pc, err>>
    /\ UNCHANGED <<proc, data, geom, geomlist, d, dGl>>

\* d.linecolor = colour; d.draw(geo)
ring_draw_dxf(k) ==
    /\ pc = RingPc(k)
    /\ i >= RingHi(k)
    /\ d' = draw([d EXCEPT !.linecolor = RingColor(k)], geo)
    /\ pc' = DrawGLPc(k)
    /\ UNCHANGED <<err, proc, data, geom, geomlist, geo, i, dGl>>

\* dGl.linecolor = colour; dGl.draw(...); then geo = [] and the next loop
ring_draw_gl(k) ==
    /\ pc = DrawGLPc(k)
    /\ dGl' = draw([dGl EXCEPT !.linecolor = RingColor(k)], GLArg(k, geo))
    /\ IF k < 3
          THEN /\ geo' = <<>>
               /\ i' = RingLo(k + 1)
               /\ pc' = RingPc(k + 1)
          ELSE /\ geo' = geo
               /\ i' = 0
               /\ pc' = "labels"
    /\ UNCHANGED <<err, proc, data, geom, geomlist, d>>

\* one iteration of: for i in range(len(geomlist))
label ==
    /\ pc = "labels"
    /\ i < label_count(geomlist)
    /\ d' = draw_text([d EXCEPT !.linecolor = label_color(i)],
                      str(i + 1), label_point(geomlist, i))
    /\ dGl' = draw_text([dGl EXCEPT !.linecolor = label_color(i)],
                        str(i + 1), label_point(geomlist, i))
    /\ i' = i + 1
    /\ UNCHANGED <<pc, err, proc, data, geom, geomlist, geo>>

\* d.layer = 'DOCUMENTATION'; d.linecolor = 256; legend(d)
legend_dxf ==
    /\ pc = "labels"
    /\ i >= label_count(geomlist)
    /\ d' = legend([d EXCEPT !.layer = "DOCUMENTATION", !.linecolor = "256"])
    /\ pc' = "legendGL"
    /\ UNCHANGED <<err, proc, data, geom, geomlist, geo, i, dGl>>

\* dGl.linecolor = 'yellow'; legend(dGl)
legend_gl ==
    /\ pc = "legendGL"
    /\ dGl' = legend([dGl EXCEPT !.linecolor = "yellow"])
    /\ pc' = "displayDXF"
    /\ UNCHANGED <<err, proc, data, geom, geomlist, geo, i, d>>

display_gl_first ==
    /\ pc = "displayDXF"
    /\ dGl' = display(dGl)
    /\ pc' = "displayGL"
    /\ UNCHANGED <<err, proc, data, geom, geomlist, geo, i, d>>

\* d.display()
display_dxf ==
    /\ pc = "displayDXF"
    /\ d' = display(d)
    /\ pc' = "displayGL"
    /\ UNCHANGED <<err, proc, data, geom, geomlist, geo, i, dGl>>

\* dGl.display()
display_gl ==
    /\ pc = "displayGL"
    /\ dGl' = display(dGl)
    /\ pc' = "done"
    /\ UNCHANGED <<err, proc, data, geom, geomlist, geo, i, d>>

Next ==
    \/ setupDXF
    \/ setupGL
    \/ run_node_script_run
    \/ run_node_script_parse
    \/ geometry_len
    \/ geometry_tri
    \/ geometry_return
    \/ \E k \in 1..3 : ring_append(k)
    \/ \E k \in 1..3 : ring_draw_dxf(k)
    \/ \E k \in 1..3 : ring_draw_gl(k)
    \/ label
    \/ legend_dxf
    \/ legend_gl
    \/ display_dxf
    \/ display_gl

Spec == Init /\ [][Next]_vars

(* ======================= properties ======================= *)
Input == proc.stdout.value
InLen == Len(Input)
WellFormed == proc.returncode = 0 /\ proc.stdout.json
Targets == {d, dGl}

IsDraw(c) == c.op = "draw"
DrawCalls(t) == SelectSeq(t.calls, IsDraw)
CallsOf(t, o) == {c \in 1..Len(t.calls) : t.calls[c].op = o}
Labels(t, n) == {c \in CallsOf(t, "draw_text") : t.calls[c].s = str(n + 1)}

\* geometry() has returned its list to the main script
Returned ==
    \/ pc \in {"ring1", "ring2", "ring3", "drawGL1", "drawGL2", "drawGL3",
               "labels", "legendGL", "displayDXF", "displayGL", "done"}
    \/ pc = "aborted" /\ err = "IndexError"

\* the three geometry batches have been drawn on both targets
BatchesDrawn == pc \in {"labels", "legendGL", "displayDXF", "displayGL", "done"}

XY(pl) == [m \in 1..Len(pl) |-> <<pl[m][1], pl[m][2]>>]

\* the indices of the geometry list whose polygon is in a batch
Covered(batch) ==
    {n \in 0..(Len(geomlist) - 1) :
        \E m \in 1..Len(batch.arg) : XY(batch.arg[m]) = XY(geomlist[n + 1])}

\* C1: geometry() returns exactly one polygon per input triangle, polygon n
\* built from input triangle n, in input order.
C1_OnePolygonPerTriangle ==
    Returned =>
        /\ Len(geomlist) = InLen
        /\ \A n \in 1..InLen : \A m \in 1..3 :
              /\ geomlist[n][m][1] = ScaleFactor * Input[n][m].x
              /\ geomlist[n][m][2] = ScaleFactor * Input[n][m].y

C1_Witness == Returned /\ InLen >= 3 /\ Len(geomlist) = InLen

\* the sample input of one triangle ((0,0),(1,0),(0,1))
SampleInput == << << [x |-> 0, y |-> 0], [x |-> Unit, y |-> 0], [x |-> 0, y |-> Unit] >> >>

\* C2: the polygon of a triangle (p1,p2,p3) is the closed sequence
\* [p1,p2,p3,p1] with every coordinate exactly 10 times the input; the sample
\* triangle yields (0,0),(10,0),(0,10).
C2_ClosedScaledPolygon ==
    Returned =>
        /\ \A n \in 1..Len(geomlist) :
              /\ Len(geomlist[n]) = 4
              /\ \A m \in 1..3 :
                    geomlist[n][m] = <<10 * Input[n][m].x, 10 * Input[n][m].y, 0>>
              /\ geomlist[n][4] = geomlist[n][1]
        /\ Input = SampleInput =>
              geomlist = << << <<0, 0, 0>>, <<10 * Unit, 0, 0>>,
                               <<0, 10 * Unit, 0>>, <<0, 0, 0>> >> >>

C2_Witness == Returned /\ Input = SampleInput /\ Len(geomlist) = 1

\* C3: for 126 triangles the three geometry batches a run has issued on each target take the
\* indices [0,6), [6,30), [30,126), each index in exactly one batch, and are
\* drawn white, yellow, red in that order.
C3_BatchesPartition ==
    (pc = "done" /\ InLen = 126) =>
        \A t \in Targets :
            LET b == DrawCalls(t)
                c == [k \in 1..Len(b) |-> Covered(b[k])]
            IN
            /\ Len(b) = 3
            /\ c[1] = 0..5    /\ Len(b[1].arg) = 6
            /\ c[2] = 6..29   /\ Len(b[2].arg) = 24
            /\ c[3] = 30..125 /\ Len(b[3].arg) = 96
            /\ c[1] \cup c[2] \cup c[3] = 0..125
            /\ c[1] \cap c[2] = {} /\ c[1] \cap c[3] = {} /\ c[2] \cap c[3] = {}
            /\ <<b[1].linecolor, b[2].linecolor, b[3].linecolor>>
                  = <<"white", "yellow", "red">>

C3_Witness == pc = "done" /\ InLen = 126 /\ Len(DrawCalls(dGl)) = 3

\* C4: exit status 0 with output that is not JSON: the run ends in an error
\* and no draw, draw_text or display call was issued on either target.
C4_MalformedNoDraw ==
    (proc.returncode = 0 /\ ~proc.stdout.json) =>
        /\ d.calls = <<>>
        /\ dGl.calls = <<>>
        /\ pc # "done"
        /\ pc = "aborted" => err # "none"

C4_Witness ==
    /\ proc.returncode = 0 /\ ~proc.stdout.json
    /\ pc = "aborted" /\ err = "TypeError" /\ data.none

\* C5: a non-zero exit status fails the run inside run_node_script before
\* the output is parsed: nothing is converted, nothing is drawn, whatever
\* the process wrote.
C5_NonZeroExitNoGeometry ==
    proc.returncode # 0 =>
        /\ pc \in {"setupDXF", "setupGL", "run", "aborted"}
        /\ pc = "aborted" => err = "CalledProcessError"
        /\ data = List(<<>>) /\ geom = <<>> /\ geomlist = <<>>
        /\ d.calls = <<>> /\ dGl.calls = <<>>

C5_Witness ==
    /\ proc.returncode # 0 /\ proc.stdout.json /\ InLen = 126
    /\ pc = "aborted" /\ err = "CalledProcessError"

DisplayCount(t) == Cardinality(CallsOf(t, "display"))
OtherCount(t) == Len(t.calls) - DisplayCount(t)
LastIsDisplay(t) == t.calls # <<>> /\ t.calls[Len(t.calls)].op = "display"

C6_State ==
    /\ DisplayCount(d) <= 1 /\ DisplayCount(dGl) <= 1
    /\ pc = "done" => /\ DisplayCount(d) = 1 /\ DisplayCount(dGl) = 1
                      /\ LastIsDisplay(d) /\ LastIsDisplay(dGl)
    /\ DisplayCount(dGl) >= 1 => DisplayCount(d) = 1 /\ pc = "done"

C6_Step ==
    (DisplayCount(d) + DisplayCount(dGl) >= 1) =>
        /\ OtherCount(d)' = OtherCount(d)
        /\ OtherCount(dGl)' = OtherCount(dGl)

\* C6: a completed run has called display() exactly once on each target, the
\* DXF target's before the OpenGL target's; no draw or draw_text call follows
\* the first display(), and the OpenGL display() is the last action.
C6_DisplayOnceLast == []C6_State /\ [][C6_Step]_vars

C6_Witness == pc = "done" /\ DisplayCount(d) = 1 /\ DisplayCount(dGl) = 1

RangeLo(k) == CASE k = 1 -> 0 [] k = 2 -> 6 [] k = 3 -> 30
RangeHi(k) == CASE k = 1 -> 6 [] k = 2 -> 30 [] k = 3 -> 126
RangeColor(n) == IF n < 6 THEN "white" ELSE IF n < 30 THEN "yellow" ELSE "red"
\* z = 0, 0.3, 0.6
RangeOffset(k) == <<0, 0, ((k - 1) * 3 * Unit) \div 10>>
Minus(a, b) == <<a[1] - b[1], a[2] - b[2], a[3] - b[3]>>
Shifted(pl, off) == [m \in 1..Len(pl) |-> add(pl[m], off)]

\* C7: on each target every triangle index n has exactly one label n+1, at
\* the triangle's centroid offset by the translation its ring's geometry was
\* drawn with on that target, in the colour of that ring's geometry.
C7_LabelMatchesRing ==
    pc = "done" =>
        \A t \in Targets : \A b \in {DrawCalls(t)} :
            \A n \in 0..(Len(geomlist) - 1) :
                /\ Cardinality(Labels(t, n)) = 1
                /\ \A c \in Labels(t, n) :
                      \E k \in 1..Len(b) : \E m \in 1..Len(b[k].arg) :
                        /\ XY(b[k].arg[m]) = XY(geomlist[n + 1])
                        /\ \A tr \in {Minus(b[k].arg[m][1], geomlist[n + 1][1])} :
                              \A q \in {Minus(t.calls[c].p, tr)} :
                                <<3 * q[1], 3 * q[2], 3 * q[3]>> =
                                    add(add(geomlist[n + 1][1], geomlist[n + 1][2]),
                                        geomlist[n + 1][3])
                        /\ t.calls[c].linecolor = b[k].linecolor
                        /\ t.calls[c].linecolor = RangeColor(n)

\* C8 as stated: on every target the three ranges are drawn translated by
\* three pairwise different offsets (z = 0, 0.3, 0.6).
C8_EveryTargetTranslated ==
    BatchesDrawn =>
        \A t \in Targets : \A b \in {DrawCalls(t)} :
            /\ Len(b) = 3
            /\ \A k \in 1..3 :
                  b[k].arg = [m \in 1..(RangeHi(k) - RangeLo(k)) |->
                                Shifted(geomlist[RangeLo(k) + m], RangeOffset(k))]

\* C8 amended: on the OpenGL target the ranges [0,6), [6,30), [30,126) are
\* drawn translated by z = 0, 0.3, 0.6, one offset per range; on the DXF
\* target all three ranges are drawn untranslated.
C8_GLTranslatedDXFNot ==
    BatchesDrawn =>
        /\ \A b \in {DrawCalls(dGl)} :
              /\ Len(b) = 3
              /\ \A k \in 1..3 :
                    b[k].arg = [m \in 1..(RangeHi(k) - RangeLo(k)) |->
                                  Shifted(geomlist[RangeLo(k) + m], RangeOffset(k))]
        /\ \A b \in {DrawCalls(d)} :
              /\ Len(b) = 3
              /\ \A k \in 1..3 :
                    b[k].arg = [m \in 1..(RangeHi(k) - RangeLo(k)) |->
                                  geomlist[RangeLo(k) + m]]
        /\ Cardinality({RangeOffset(k) : k \in 1..3}) = 3

C8_Witness ==
    /\ BatchesDrawn /\ Len(DrawCalls(dGl)) = 3
    /\ DrawCalls(dGl)[3].arg # DrawCalls(d)[3].arg

\* the number of ranges that fit entirely below n
Fitting(n) == IF n < 6 THEN 0 ELSE IF n < 30 THEN 1 ELSE 2

\* C9: fewer than 126 well-formed triangles: the run aborts with an index
\* error at the first range reaching past the list, before any label and
\* any display(), after the geometry draws of the ranges that fit were
\* issued on both targets; nothing rejects the input before those draws.
C9_ShortListIndexError ==
    (WellFormed /\ InLen < 126) =>
        /\ pc # "done"
        /\ \A t \in Targets :
              CallsOf(t, "draw_text") = {} /\ CallsOf(t, "display") = {}
        /\ pc = "aborted" =>
              /\ err = "IndexError"
              /\ i = InLen
              /\ \A t \in Targets : \A b \in {DrawCalls(t)} :
                    /\ Len(b) = Fitting(InLen)
                    /\ \A k \in 1..Len(b) : Len(b[k].arg) = RangeHi(k) - RangeLo(k)

C9_Witness ==
    /\ WellFormed /\ InLen < 126 /\ InLen >= 30
    /\ pc = "aborted" /\ err = "IndexError"
    /\ Len(DrawCalls(d)) = 2 /\ Len(DrawCalls(dGl)) = 2

\* C10: more than 126 well-formed triangles: the run does not fail, the
\* polygons from index 126 on are in no geometry draw call of either target,
\* and a completed run has drawn a label for every index on both targets.
C10_LongListTruncated ==
    (WellFormed /\ InLen > 126) =>
        /\ pc # "aborted" /\ err = "none"
        /\ Returned =>
              \A t \in Targets : \A b \in {DrawCalls(t)} :
                 \A n \in 126..(InLen - 1) : \A k \in 1..Len(b) :
                     \A m \in 1..Len(b[k].arg) :
                         XY(b[k].arg[m]) # XY(geomlist[n + 1])
        /\ pc = "done" =>
              \A t \in Targets : \A n \in 0..(InLen - 1) : Labels(t, n) # {}

C10_Witness ==
    /\ WellFormed /\ InLen > 126 /\ pc = "done"
    /\ Labels(d, InLen - 1) # {} /\ Labels(dGl, InLen - 1) # {}
    /\ Len(DrawCalls(d)) = 3

====
